---- MODULE Spec2Model ----
(***************************************************************************)
(* fintube: the DuckDB store of channel statistics and curated metadata    *)
(* (src/src/data_processor.py), the statistics provider                    *)
(* (src/src/youtube_api.py) and the dashboard page script that keeps the   *)
(* store in step with the tracked channel set                              *)
(* (src/pages/1_..._Analytics_Dashboard.py), and the market summary        *)
(* (src/src/market_data.py).                                               *)
(*                                                                         *)
(* Tables are sets of rows (records).  SQL NULL and Python None in a text  *)
(* column are the string NULL; a JSON array is the sequence of its tags.   *)
(* A DOUBLE quotient is the reduced fraction <<numerator, denominator>>.   *)
(* Columns no operation of the model reads (published_at,                  *)
(* channel_age_days, videos_per_month, last_updated) are left out; counts  *)
(* stay inside the 32-bit INTEGER range of their columns.                  *)
(***************************************************************************)
EXTENDS Integers, Sequences, FiniteSets, TLC

\* ---------------------------------------------------------------- bounds
MaxChannel == 3      \* channel identifiers the user can type
NumDefault == 2      \* how many of them are DEFAULT_CHANNELS
MaxClock == 3        \* snapshots ever inserted (values of fetched_at)
MaxCount == 2        \* raw counts the provider reports are 0..MaxCount
MaxIds == 2          \* length of an identifier list handed to the store
MaxRows == 2         \* snapshots recorded in the store-level specifications

AllIds == <<"UC1", "UC2", "UC3", "UC4", "UC5", "UC6">>
Channels == {AllIds[i] : i \in 1..MaxChannel}
DEFAULT_CHANNELS == {AllIds[i] : i \in 1..NumDefault}

Range(s) == {s[i] : i \in DOMAIN s}

\* ------------------------------------------------------------ SQL values
NULL == "NULL"
NullList == <<"NULL">>
FirmTypes == {"wealth management", "etf management", "data & analytics",
              "investor research", "podcast"}
ContentTypes == {"long-form", "short-form", "both"}

\* Python dict.get(key, default)
Get(d, k, default) == IF k \in DOMAIN d THEN d[k] ELSE default

RECURSIVE GCD(_, _)
GCD(a, b) == IF b = 0 THEN a ELSE GCD(b, a % b)

\* DuckDB's a / b on two integers: a DOUBLE, here a reduced fraction
Div(a, b) == LET g == GCD(a, b) IN <<a \div g, b \div g>>
\* the integer literal 0 of an ELSE branch, cast to DOUBLE
Zero == <<0, 1>>

\* ------------------------------------------------------- provider values
None == [kind |-> "none"]

FullStatistics ==
    [{"subscriberCount", "videoCount", "viewCount"} -> 0..MaxCount]
\* a channel that hides its counts sends no key at all
HiddenStatistics == [x \in {} |-> 0]

Item(c, statistics, withDescription) ==
    [kind |-> "item", id |-> c,
     snippet |-> IF withDescription
                 THEN [title |-> "Title", description |-> "About"]
                 ELSE [title |-> "Title"],
     statistics |-> statistics]

\* every raw object of one channel over the whole grid of counts
RawChannelData ==
    {Item(AllIds[1], s, TRUE) : s \in FullStatistics \cup {HiddenStatistics}}

\* what get_channel_statistics can return for channel c when it finds it
ProviderItems(c) ==
    {Item(c, HiddenStatistics, FALSE),
     Item(c, [subscriberCount |-> 1, videoCount |-> 2, viewCount |-> 3], TRUE)}

\* ---------------------------------------------------------- channel_stats
avg_views_per_video_mut(view_count, video_count) ==
    IF video_count > 0 THEN <<view_count \div video_count, 1>> ELSE Zero
avg_views_per_video(view_count, video_count) ==
    IF video_count > 0 THEN Div(view_count, video_count) ELSE Zero

subscriber_view_ratio(subscriber_count, view_count) ==
    IF view_count > 0 THEN Div(subscriber_count, view_count) ELSE Zero

StatsRow(channel_data, now) ==
    LET subscriber_count == Get(channel_data.statistics, "subscriberCount", 0)
        video_count == Get(channel_data.statistics, "videoCount", 0)
        view_count == Get(channel_data.statistics, "viewCount", 0)
    IN [channel_id |-> channel_data.id,
        title |-> channel_data.snippet.title,
        subscriber_count |-> subscriber_count,
        video_count |-> video_count,
        view_count |-> view_count,
        avg_views_per_video |-> avg_views_per_video(view_count, video_count),
        subscriber_view_ratio |-> subscriber_view_ratio(subscriber_count, view_count),
        fetched_at |-> now]

store_channel_stats(stats, channel_data, now) ==
    IF channel_data = None THEN stats
    ELSE stats \cup {StatsRow(channel_data, now)}

\* ------------------------------------------- identifiers inside SQL text
\* remove_channels and get_channel_comparison paste the identifiers into the
\* statement: "','".join(channel_ids) between IN (' and ').  A string is
\* the sequence of its characters, with a run of characters that holds no
\* quote and no comma standing as one element.
Quote == "'"
Comma == ","
Quoted == "UC1','UC2"      \* an identifier that holds quotes
Unbalanced == "UC1'"       \* an identifier that ends in one quote

Chars(id) ==
    IF id = "" THEN <<>>
    ELSE IF id = Quoted THEN <<"UC1", Quote, Comma, Quote, "UC2">>
    ELSE IF id = Unbalanced THEN <<"UC1", Quote>>
    ELSE <<id>>

\* "','".join(channel_ids)
RECURSIVE Join(_)
Join(ids) ==
    IF Len(ids) = 0 THEN <<>>
    ELSE IF Len(ids) = 1 THEN Chars(ids[1])
    ELSE Chars(ids[1]) \o <<Quote, Comma, Quote>> \o Join(Tail(ids))

\* the text between the parentheses of IN (...)
InList(ids) == <<Quote>> \o Join(ids) \o <<Quote>>

\* how SQL reads that text: string literals separated by commas; inside a
\* literal two quotes in a row are one quote character.  where is "out"
\* before a literal, "in" inside one, "end" after one.
RECURSIVE Literals(_, _, _, _, _)
Literals(text, i, where, literal, found) ==
    IF i > Len(text)
    THEN [ok |-> where = "end", values |-> found]
    ELSE IF where = "out"
    THEN IF text[i] = Quote THEN Literals(text, i + 1, "in", <<>>, found)
         ELSE [ok |-> FALSE, values |-> {}]
    ELSE IF where = "in"
    THEN IF text[i] # Quote
         THEN Literals(text, i + 1, "in", Append(literal, text[i]), found)
         ELSE IF i < Len(text) /\ text[i + 1] = Quote
         THEN Literals(text, i + 2, "in", Append(literal, Quote), found)
         ELSE Literals(text, i + 1, "end", <<>>, found \cup {literal})
    ELSE IF text[i] = Comma THEN Literals(text, i + 1, "out", <<>>, found)
         ELSE [ok |-> FALSE, values |-> {}]

\* WHERE channel_id IN ('...'): the rows the statement selects, or a parser error
WhereIn(rows, ids) ==
    LET parsed == Literals(InList(ids), 1, "out", <<>>, {})
    IN [raised |-> ~parsed.ok,
        rows |-> UNION {{r \in rows : Chars(r.channel_id) = v} : v \in parsed.values}]

remove_channels(stats, ids) ==
    IF Len(ids) = 0 THEN [raised |-> FALSE, table |-> stats]
    ELSE LET selected == WhereIn(stats, ids)
         IN [raised |-> selected.raised, table |-> stats \ selected.rows]

\* ------------------------------------------------------- channel_metadata
CheckConstraints_mut(row) == row.firm_type \in FirmTypes \cup {NULL}
CheckConstraints(row) ==
    /\ row.firm_type \in FirmTypes \cup {NULL}
    /\ row.content_type \in ContentTypes \cup {NULL}

Excluded(channel_id, metadata) ==
    [channel_id |-> channel_id,
     title |-> Get(metadata, "title", NULL),
     description |-> Get(metadata, "description", NULL),
     firm_type |-> Get(metadata, "firm_type", NULL),
     target_audience |-> Get(metadata, "target_audience", NullList),
     content_type |-> Get(metadata, "content_type", NULL),
     has_legacy_media |-> Get(metadata, "has_legacy_media", NULL)]

Upsert_mut(meta, row) == meta \cup {row}
\* INSERT ... ON CONFLICT (channel_id) DO UPDATE SET <all six columns>
Upsert(meta, row) ==
    {r \in meta : r.channel_id # row.channel_id} \cup {row}

store_channel_metadata(meta, channel_id, metadata) ==
    LET row == Excluded(channel_id, metadata)
    IN IF CheckConstraints(row)
       THEN [raised |-> FALSE, table |-> Upsert(meta, row)]
       ELSE [raised |-> TRUE, table |-> meta]

\* ------------------------------------------------- get_channel_comparison
JoinRows(cs, meta) ==
    LET ms == {cm \in meta : cm.channel_id = cs.channel_id}
    IN IF ms = {}
       THEN {[cs |-> cs, firm_type |-> NULL, target_audience |-> NullList,
              content_type |-> NULL, has_legacy_media |-> NULL]}
       ELSE {[cs |-> cs, firm_type |-> cm.firm_type,
              target_audience |-> cm.target_audience,
              content_type |-> cm.content_type,
              has_legacy_media |-> cm.has_legacy_media] : cm \in ms}

\* `if channel_ids:` is false for None and for the empty list alike
get_channel_comparison(stats, meta, channel_ids) ==
    LET selected == IF Len(channel_ids) > 0
                    THEN WhereIn(stats, channel_ids)
                    ELSE [raised |-> FALSE, rows |-> stats]
    IN [raised |-> selected.raised,
        result |-> UNION {JoinRows(cs, meta) : cs \in selected.rows}]

\* ------------------------------------------------ _load_metadata_from_csv
\* A seed file: whether it can be read, and its rows as pandas parses them.
\* A target_audience cell is its text; for a text that starts with '[',
\* parsed is what json.loads returns for it.
JsonCell(tags) == [bracket |-> TRUE, text |-> "[...]", parsed |-> tags]
BareCell(text) == [bracket |-> FALSE, text |-> text, parsed |-> <<>>]

SeedRow(channel_id, firm_type, audience, content_type, legacy) ==
    [channel_id |-> channel_id, firm_type |-> firm_type,
     target_audience |-> audience, content_type |-> content_type,
     has_legacy_media |-> legacy]

SeedNone == [exists |-> FALSE, rows |-> <<>>]
SeedGood ==
    [exists |-> TRUE, rows |->
       << SeedRow(NULL, "podcast", BareCell("general"), "both", TRUE),
          SeedRow("UC1", "podcast", BareCell("institutional"), "long-form", TRUE),
          SeedRow("UC3", "etf management",
                  JsonCell(<<"institutional", "general">>), "both", FALSE) >>]
SeedBad ==
    [exists |-> TRUE, rows |->
       << SeedRow("UC1", "wealth management", BareCell("None"), "short-form", FALSE),
          SeedRow("UC2", "bank", BareCell("general"), "both", TRUE),
          SeedRow("UC3", "investor research", BareCell("accredited"), "long-form", TRUE) >>]

\* df.dropna(subset=['channel_id'])
DropNa(rows) == SelectSeq(rows, LAMBDA r : r.channel_id # NULL)

\* the lambda applied to the target_audience column
CoerceAudience(x) ==
    IF x.bracket THEN x.parsed
    ELSE IF x.text # "" /\ x.text # "None" THEN <<x.text>> ELSE <<>>

\* astype(bool), as DuckDB then stores it
SqlBool(b) == IF b THEN "true" ELSE "false"

\* the dict handed to store_channel_metadata for one row
SeedMetadata(row) ==
    [title |-> Get(row, "title", ""),
     firm_type |-> row.firm_type,
     target_audience |-> CoerceAudience(row.target_audience),
     content_type |-> row.content_type,
     has_legacy_media |-> SqlBool(row.has_legacy_media)]

\* the for loop inside the try block: the first row that raises ends it
RECURSIVE LoadRows(_, _, _)
LoadRows(meta, rows, i) ==
    IF i > Len(rows) THEN [table |-> meta, calls |-> Len(rows), raised |-> FALSE]
    ELSE LET r == store_channel_metadata(meta, rows[i].channel_id, SeedMetadata(rows[i]))
         IN IF r.raised THEN [table |-> meta, calls |-> i, raised |-> TRUE]
            ELSE LoadRows(r.table, rows, i + 1)

load_metadata_from_csv(meta, file) ==
    IF file.exists THEN LoadRows(meta, DropNa(file.rows), 1)
    ELSE [table |-> meta, calls |-> 0, raised |-> TRUE]

\* the stub the page records after a successful fetch
StubMetadata(channel_data) ==
    [title |-> channel_data.snippet.title,
     description |-> Get(channel_data.snippet, "description", ""),
     firm_type |-> NULL,
     target_audience |-> <<>>,
     content_type |-> NULL,
     has_legacy_media |-> "false"]

\* ================================================================= state
VARIABLES
    channel_stats,      \* table channel_stats
    channel_metadata,   \* table channel_metadata
    clock,              \* CURRENT_TIMESTAMP of the latest insert
    csv,                \* data/channel_metadata.csv
    call,               \* the latest call made on the store, with what it returned
    last_call,          \* per channel, the dict of its latest store_channel_metadata call
    last_stored,        \* per channel, the dict of its latest call that did not raise
    pc,                 \* where the page script stands
    session,            \* 'current_channels' in st.session_state
    current_channels,   \* st.session_state.current_channels
    first_run,          \* this is the session's first run: the text area shows its default
    new_channels,       \* the set parsed from the text area
    todo,               \* what the running for loop has still to visit
    channel_id,         \* the loop variable
    fetched,            \* what get_channel_statistics returned
    errors,             \* per channel, the st.error reports of the run in progress
    absent,             \* the channels the provider returned None for in this run
    at_start,           \* both tables when the set-update in progress began
    at_removal,         \* per channel not added again since, the curated metadata
                        \* it had when remove_channels deleted its snapshots
    pace,               \* "called": the run has called the provider and has not
                        \* slept since; "slept" otherwise
    history,            \* the (symbol, window) pairs the market provider has data for
    video_stats         \* table video_stats

\* what no step of the channel code writes
restVars == <<csv, history, video_stats>>
storeVars == <<channel_stats, channel_metadata, clock, restVars>>
ghostVars == <<last_call, last_stored>>
pageVars == <<pc, session, first_run, current_channels, new_channels, todo, channel_id,
              fetched, errors, absent, at_start, at_removal, pace>>
vars == <<storeVars, call, ghostVars, pageVars>>

KnownIds == Range(AllIds)
NoCall == [kind |-> "none"]
NoUpdate == [stats |-> {}, meta |-> {}]
NoErrors == [c \in KnownIds |-> 0]

\* ------------------------------------------------- calls made on the store
\* Each sets both tables, the clock and the record of the call.
CallStoreChannelStats(channel_data) ==
    /\ channel_stats' = store_channel_stats(channel_stats, channel_data, clock + 1)
    /\ clock' = IF channel_data = None THEN clock ELSE clock + 1
    /\ channel_metadata' = channel_metadata
    /\ call' = [name |-> "store_channel_stats", channel_data |-> channel_data,
                raised |-> FALSE]
    /\ UNCHANGED ghostVars

CallStoreChannelMetadata(c, metadata) ==
    LET r == store_channel_metadata(channel_metadata, c, metadata)
    IN /\ channel_metadata' = r.table
       /\ UNCHANGED <<channel_stats, clock>>
       /\ call' = [name |-> "store_channel_metadata", channel_id |-> c,
                   metadata |-> metadata, raised |-> r.raised]
       /\ last_call' = [last_call EXCEPT ![c] = metadata]
       /\ last_stored' = IF r.raised THEN last_stored
                         ELSE [last_stored EXCEPT ![c] = metadata]
   
CallRemoveChannels(ids) ==
    /\ \E r \in {remove_channels(channel_stats, ids)} :
          /\ channel_stats' = r.table
          /\ call' = [name |-> "remove_channels", channel_ids |-> ids,
                      raised |-> r.raised]
    /\ UNCHANGED <<channel_metadata, clock>>
    /\ UNCHANGED ghostVars

CallGetChannelComparison(ids) ==
    /\ UNCHANGED <<channel_stats, channel_metadata, clock>>
    /\ \E r \in {get_channel_comparison(channel_stats, channel_metadata, ids)} :
          call' = [name |-> "get_channel_comparison", channel_ids |-> ids,
                   raised |-> r.raised, result |-> r.result]
    /\ UNCHANGED ghostVars

\* the latest dict per channel after the first n rows of the seed were sent
AfterSeedCalls(f, rows, n) ==
    [c \in DOMAIN f |->
        LET js == {j \in 1..n : rows[j].channel_id = c}
        IN IF js = {} THEN f[c]
           ELSE SeedMetadata(rows[CHOOSE j \in js : \A k \in js : k <= j])]

\* DataProcessor(): CREATE TABLE IF NOT EXISTS keeps what the file holds,
\* then the seed file is loaded
CallConstruct ==
    \E r \in {load_metadata_from_csv(channel_metadata, csv)},
       rows \in {DropNa(csv.rows)} :
       /\ channel_metadata' = r.table
       /\ UNCHANGED <<channel_stats, clock>>
       /\ call' = [name |-> "__init__", calls |-> r.calls, raised |-> FALSE]
       /\ last_call' = AfterSeedCalls(last_call, rows, r.calls)
       /\ last_stored' = AfterSeedCalls(last_stored, rows,
                                        IF r.raised THEN r.calls - 1 ELSE r.calls)

\* list(a_set): the set's members, each once
RECURSIVE ListOf(_)
ListOf(S) ==
    IF S = {} THEN <<>>
    ELSE LET x == CHOOSE y \in S : TRUE
         IN <<x>> \o ListOf(S \ {x})

\* lists a caller can hand to the store: any strings
IdLists ==
    {ListOf(S) : S \in {T \in SUBSET Channels : Cardinality(T) <= MaxIds}}
       \cup {<<Quoted>>, <<Unbalanced>>}

\* dicts a caller can hand to store_channel_metadata
MetadataDicts ==
    { StubMetadata(Item("UC1", HiddenStatistics, FALSE)),
      [title |-> "Seed", firm_type |-> "podcast",
       target_audience |-> <<"institutional">>, content_type |-> "long-form",
       has_legacy_media |-> "true"],
      [firm_type |-> "etf management"],
      [title |-> "Bad firm", firm_type |-> "bank", content_type |-> "both"],
      [firm_type |-> "podcast", content_type |-> "medium"] }

PageIdle ==
    /\ pc = "idle" /\ session = FALSE /\ first_run = FALSE /\ current_channels = {}
    /\ new_channels = {} /\ todo = {} /\ channel_id = NULL /\ fetched = None
    /\ errors = NoErrors /\ absent = {} /\ at_start = NoUpdate
    /\ at_removal = [c \in KnownIds |-> NoCall]
    /\ pace = "slept"

\* a new database file, opened by DataProcessor()
NewStore(file) ==
    /\ csv = file
    /\ video_stats = {}
    /\ channel_stats = {}
    /\ clock = 0
    /\ channel_metadata = load_metadata_from_csv({}, file).table
    /\ call = [name |-> "__init__",
               calls |-> load_metadata_from_csv({}, file).calls, raised |-> FALSE]
    /\ LET r == load_metadata_from_csv({}, file)
           rows == DropNa(file.rows)
           none == [c \in KnownIds |-> NoCall]
       IN /\ last_call = AfterSeedCalls(none, rows, r.calls)
          /\ last_stored = AfterSeedCalls(none, rows,
                                          IF r.raised THEN r.calls - 1 ELSE r.calls)

\* ------------------------------------ the metadata table under any callers
MetaStoreChannelMetadata ==
    \E c \in DEFAULT_CHANNELS, metadata \in MetadataDicts :
        /\ CallStoreChannelMetadata(c, metadata)
        /\ UNCHANGED <<restVars, pageVars>>

MetaConstruct ==
    /\ CallConstruct
    /\ UNCHANGED <<restVars, pageVars>>

InitMeta == PageIdle /\ history = {} /\ \E file \in {SeedGood, SeedBad} : NewStore(file)
NextMeta == MetaStoreChannelMetadata \/ MetaConstruct
SpecMeta == InitMeta /\ [][NextMeta]_vars

\* --------------------------------- the statistics table under any callers
StoreStoreChannelStats ==
    \E c \in Channels : \E channel_data \in ProviderItems(c) \cup {None} :
        /\ clock < MaxRows
        /\ CallStoreChannelStats(channel_data)
        /\ UNCHANGED <<restVars, pageVars>>

StoreRemoveChannels ==
    \E ids \in IdLists :
        /\ CallRemoveChannels(ids)
        /\ UNCHANGED <<restVars, pageVars>>

StoreGetChannelComparison ==
    \E ids \in IdLists :
        /\ CallGetChannelComparison(ids)
        /\ UNCHANGED <<restVars, pageVars>>

InitStore == PageIdle /\ history = {} /\ NewStore(SeedGood)
NextStore == StoreStoreChannelStats \/ StoreRemoveChannels \/ StoreGetChannelComparison
SpecStore == InitStore /\ [][NextStore]_vars

\* ------------------------------ the derived metrics over the grid of counts
GridStoreChannelStats ==
    \E channel_data \in RawChannelData :
        /\ clock < MaxRows
        /\ CallStoreChannelStats(channel_data)
        /\ UNCHANGED <<restVars, pageVars>>

InitGrid == PageIdle /\ history = {} /\ NewStore(SeedNone)
NextGrid == GridStoreChannelStats
SpecGrid == InitGrid /\ [][NextGrid]_vars

\* ============================================================ video_stats
\* the columns of the table, in the order of CREATE TABLE
VideoColumns ==
    <<"video_id", "title", "channel_id", "view_count", "like_count",
      "comment_count", "published_at", "duration_seconds", "like_ratio",
      "comment_ratio", "engagement_score", "video_age_days", "views_per_day",
      "fetched_at">>
\* the columns of the one-row frame store_video_stats builds
VideoFrameColumns ==
    <<"video_id", "title", "channel_id", "view_count", "like_count",
      "comment_count", "published_at">>

VideoIds == {"V1", "V2"}
\* what the provider sends for a video
VideoData ==
    {[kind |-> "item", id |-> v, snippet |-> [title |-> "Title", channelId |-> c],
      statistics |-> st] :
        v \in VideoIds, c \in Channels,
        st \in [{"viewCount", "likeCount", "commentCount"} -> 0..MaxCount]}

VideoFrame(video_data) ==
    [video_id |-> video_data.id,
     title |-> video_data.snippet.title,
     channel_id |-> video_data.snippet.channelId,
     view_count |-> Get(video_data.statistics, "viewCount", 0),
     like_count |-> Get(video_data.statistics, "likeCount", 0),
     comment_count |-> Get(video_data.statistics, "commentCount", 0),
     published_at |-> "publishedAt"]

\* INSERT INTO video_stats SELECT * FROM df: the values go to the table's
\* columns by position, and the statement is refused when the frame does not
\* supply a value for every column of the table
store_video_stats(videos, video_data) ==
    IF video_data = None THEN [raised |-> FALSE, table |-> videos]
    ELSE IF Len(VideoFrameColumns) # Len(VideoColumns)
    THEN [raised |-> TRUE, table |-> videos]
    ELSE [raised |-> FALSE,
          table |-> videos \cup
             {[col \in Range(VideoColumns) |->
                 VideoFrame(video_data)[VideoFrameColumns[
                    CHOOSE i \in DOMAIN VideoColumns : VideoColumns[i] = col]]]}]

\* a SELECT over video_stats whose result is dropped: the table is not written
calculate_derived_metrics(videos) == [raised |-> FALSE, table |-> videos]

VideoStoreVideoStats ==
    \E video_data \in VideoData \cup {None} :
        /\ video_stats' = store_video_stats(video_stats, video_data).table
        /\ call' = [name |-> "store_video_stats", video_data |-> video_data,
                    raised |-> store_video_stats(video_stats, video_data).raised]
        /\ UNCHANGED <<channel_stats, channel_metadata, clock, csv, history,
                       ghostVars, pageVars>>

VideoCalculateDerivedMetrics ==
    /\ video_stats' = calculate_derived_metrics(video_stats).table
    /\ call' = [name |-> "calculate_derived_metrics",
                raised |-> calculate_derived_metrics(video_stats).raised]
    /\ UNCHANGED <<channel_stats, channel_metadata, clock, csv, history,
                   ghostVars, pageVars>>

InitVideo == PageIdle /\ history = {} /\ NewStore(SeedNone)
NextVideo == VideoStoreVideoStats \/ VideoCalculateDerivedMetrics
SpecVideo == InitVideo /\ [][NextVideo]_vars

\* ============================================================ market data
\* self.symbols and self.periods, by display name
Symbols == {"S&P 500", "NASDAQ", "VIX"}
Periods == {"1 Month", "3 Months", "6 Months"}
Pairs == Symbols \X Periods

\* a float computed from prices; None is NULL
Num == "num"

\* the dict appended for a pair whose history is not empty
PerformanceRecord(symbol_name, period_name) ==
    IF symbol_name = "VIX"
    THEN [symbol |-> symbol_name, period |-> period_name, performance |-> NULL,
          high |-> Num, low |-> Num, median |-> Num]
    ELSE [symbol |-> symbol_name, period |-> period_name, performance |-> Num,
          high |-> NULL, low |-> NULL, median |-> NULL]

\* pd.DataFrame(list of dicts): the columns are the keys of the dicts, so an
\* empty list makes a frame without columns
DataFrame(records) ==
    [columns |-> IF records = {} THEN {}
                 ELSE {"symbol", "period", "performance", "high", "low", "median"},
     rows |-> records]

get_market_performance(hist) ==
    DataFrame({PerformanceRecord(pair[1], pair[2]) : pair \in hist})

\* frame.pivot(index='symbol', columns='period', values=...): a row per symbol
\* and a column per (value, period) that occur; a cell no record fills is NULL
Pivot(rows, values) ==
    [index |-> {r.symbol : r \in rows},
     columns |-> values \X {r.period : r \in rows},
     cell |-> [k \in {r.symbol : r \in rows} \X (values \X {r.period : r \in rows}) |->
                 LET rs == {r \in rows : r.symbol = k[1] /\ r.period = k[2][2]}
                 IN IF rs = {} THEN NULL ELSE (CHOOSE r \in rs : TRUE)[k[2][1]]]]

\* df['symbol'] on a frame without that column raises KeyError
get_market_summary(hist) ==
    LET df == get_market_performance(hist)
        indices_df == {r \in df.rows : r.symbol # "VIX"}
        vix_df == {r \in df.rows : r.symbol = "VIX"}
    IN IF "symbol" \notin df.columns
       THEN [raised |-> TRUE, indices |-> Pivot({}, {}), vix |-> Pivot({}, {})]
       ELSE [raised |-> FALSE,
             indices |-> Pivot(indices_df, {"performance"}),
             vix |-> Pivot(vix_df, {"high", "low", "median"})]

MarketGetPerformance ==
    /\ call' = [name |-> "get_market_performance", raised |-> FALSE,
                result |-> get_market_performance(history)]
    /\ UNCHANGED <<channel_stats, channel_metadata, clock, restVars, ghostVars, pageVars>>

MarketGetSummary ==
    /\ call' = [name |-> "get_market_summary",
                raised |-> get_market_summary(history).raised,
                result |-> get_market_summary(history)]
    /\ UNCHANGED <<channel_stats, channel_metadata, clock, restVars, ghostVars, pageVars>>

\* the provider has data for any subset of the pairs
InitMarket == PageIdle /\ NewStore(SeedNone) /\ history \in SUBSET Pairs
NextMarket == MarketGetPerformance \/ MarketGetSummary
SpecMarket == InitMarket /\ [][NextMarket]_vars

\* ======================================================= the dashboard page
\* One run of the page script, statement by statement.  Streamlit runs it
\* again on every interaction; the store outlives runs and sessions.  The
\* lines typed here are identifiers without quotes, so no store call of the
\* page raises.

\* the text area: the lines the user typed, one channel each, now and then
\* with a blank line or with a channel typed twice
Texts ==
    UNION {{ListOf(S), <<"">> \o ListOf(S) \o <<"">>, ListOf(S) \o ListOf(S)} :
             S \in SUBSET Channels}
DefaultText == ListOf(DEFAULT_CHANNELS)
\* set(channel_id.strip() for channel_id in channel_ids.split('\n') if channel_id.strip())
ParseChannelIds(text) == {text[i] : i \in {j \in DOMAIN text : text[j] # ""}}

channels_to_add_mut(new, current) == new
channels_to_add(new, current) == new \ current
channels_to_remove(new, current) == current \ new

\* get_channel_statistics: the item found, or None on any failure
ProviderResponses(c) ==
    {None} \cup (IF clock < MaxClock THEN {Item(c, HiddenStatistics, FALSE)} ELSE {})

Curated(row) ==
    [firm_type |-> row.firm_type, target_audience |-> row.target_audience,
     content_type |-> row.content_type, has_legacy_media |-> row.has_legacy_media]

MetadataOf(meta, c) == {r \in meta : r.channel_id = c}
SnapshotsOf(stats, c) == {r \in stats : r.channel_id = c}
ChannelsOf(stats) == {r.channel_id : r \in stats}

\* a row somebody filled in: the stub leaves firm_type and content_type unset
IsCurated(row) == row.firm_type # NULL \/ row.content_type # NULL

\* a rerun: init_resources() (ttl=0, so never cached), then the session state
RunStart ==
    /\ pc = "idle"
    /\ CallConstruct
    /\ first_run' = ~session
    /\ session' = TRUE
    /\ current_channels' = IF session THEN current_channels ELSE DEFAULT_CHANNELS
    /\ todo' = current_channels'
    /\ pc' = "loop"
    /\ UNCHANGED <<pace, restVars, new_channels, channel_id, fetched, errors, absent,
                   at_start, at_removal>>

\* the browser is reloaded: the session state is gone, the store is not
NewSession ==
    /\ pc = "idle" /\ session
    /\ session' = FALSE
    /\ current_channels' = {}
    /\ UNCHANGED <<pace, storeVars, call, ghostVars, pc, first_run, new_channels, todo,
                   channel_id, fetched, errors, absent, at_start, at_removal>>

LoopCheck_mut ==
    /\ pc = "loop"
    /\ \E c \in todo :
          /\ channel_id' = c
          /\ todo' = todo \ {c}
          /\ CallGetChannelComparison(<<c>>)
    /\ pc' = "loop_fetch"
    /\ UNCHANGED <<pace, restVars, session, first_run, current_channels, new_channels,
                   fetched, errors, absent, at_start, at_removal>>
\* for channel_id in current_channels: if get_channel_comparison([channel_id]).empty
LoopCheck ==
    /\ pc = "loop"
    /\ \E c \in todo :
          /\ channel_id' = c
          /\ todo' = todo \ {c}
          /\ CallGetChannelComparison(<<c>>)
    /\ pc' = IF call'.result = {} THEN "loop_fetch" ELSE "loop"
    /\ UNCHANGED <<pace, restVars, session, first_run, current_channels, new_channels,
                   fetched, errors, absent, at_start, at_removal>>

\* channel_stats = youtube_api.get_channel_statistics(channel_id)
LoopFetch ==
    /\ pc = "loop_fetch"
    /\ \E r \in ProviderResponses(channel_id) :
          /\ fetched' = r
          /\ absent' = IF r = None THEN absent \cup {channel_id} ELSE absent
    /\ pace' = "called"
    /\ pc' = "loop_store"
    /\ UNCHANGED <<storeVars, call, ghostVars, session, first_run,
                   current_channels, new_channels, todo, channel_id, errors,
                   at_start, at_removal>>

StoreStatsOrReport_mut(stored, failed) ==
    /\ IF fetched # None
       THEN /\ CallStoreChannelStats(fetched)
            /\ pc' = stored
            /\ UNCHANGED <<errors, fetched, todo>>
       ELSE /\ errors' = [errors EXCEPT ![channel_id] = @ + 1]
            /\ pc' = failed
            /\ fetched' = None
            /\ todo' = {}
            /\ UNCHANGED <<channel_stats, channel_metadata, clock, call, ghostVars>>
    /\ UNCHANGED <<pace, restVars, session, first_run, current_channels, new_channels,
                   channel_id, absent, at_start, at_removal>>

\* if channel_stats: store_channel_stats(...)  else: st.error(...)
StoreStatsOrReport(stored, failed) ==
    /\ IF fetched # None
       THEN /\ CallStoreChannelStats(fetched)
            /\ pc' = stored
            /\ UNCHANGED <<errors, fetched, todo>>
       ELSE /\ errors' = [errors EXCEPT ![channel_id] = @ + 1]
            /\ pc' = failed
            /\ fetched' = None
            /\ todo' = todo
            /\ UNCHANGED <<channel_stats, channel_metadata, clock, call, ghostVars>>
    /\ UNCHANGED <<pace, restVars, session, first_run, current_channels, new_channels,
                   channel_id, absent, at_start, at_removal>>

\* store_channel_metadata(channel_id, {title, description, the rest unset})
StoreStub(next) ==
    /\ CallStoreChannelMetadata(channel_id, StubMetadata(fetched))
    /\ pc' = next
    /\ fetched' = None
    /\ UNCHANGED <<pace, restVars, session, first_run, current_channels, new_channels, todo,
                   channel_id, errors, absent, at_start, at_removal>>

LoopStoreStats == pc = "loop_store" /\ StoreStatsOrReport("loop_meta", "loop_sleep")
LoopStoreMetadata == pc = "loop_meta" /\ StoreStub("loop_sleep")

\* time.sleep(1)
LoopSleep ==
    /\ pc = "loop_sleep"
    /\ pace' = "slept"
    /\ pc' = "loop"
    /\ UNCHANGED <<storeVars, call, ghostVars, session, first_run,
                   current_channels, new_channels, todo, channel_id, fetched,
                   errors, absent, at_start, at_removal>>

\* the loop is over; the text area is read (on a session's first run it holds
\* its default value) and: if channels_to_add or channels_to_remove:
BeginUpdate ==
    /\ pc = "loop" /\ todo = {}
    /\ \E text \in (IF first_run THEN {DefaultText} ELSE Texts) :
          new_channels' = ParseChannelIds(text)
    /\ LET to_add == channels_to_add(new_channels', current_channels)
           to_remove == channels_to_remove(new_channels', current_channels)
       IN /\ at_start' = IF to_add = {} /\ to_remove = {} THEN NoUpdate
                         ELSE [stats |-> channel_stats, meta |-> channel_metadata]
          /\ pc' = IF to_add = {} /\ to_remove = {} THEN "display"
                   ELSE IF to_remove # {} THEN "remove" ELSE "add"
          /\ todo' = to_add
    /\ UNCHANGED <<pace, storeVars, call, ghostVars, session, first_run,
                   current_channels, channel_id, fetched, errors, absent,
                   at_removal>>

Remove_mut ==
    /\ pc = "remove"
    /\ CallRemoveChannels(<<>>)
    /\ at_removal' =
         [c \in KnownIds |->
            IF /\ c \in channels_to_remove(new_channels, current_channels)
               /\ SnapshotsOf(channel_stats, c) # {}
               /\ \E m \in MetadataOf(channel_metadata, c) : IsCurated(m)
            THEN Curated(CHOOSE m \in MetadataOf(channel_metadata, c) : TRUE)
            ELSE at_removal[c]]
    /\ pc' = "add"
    /\ UNCHANGED <<pace, restVars, session, first_run, current_channels, new_channels, todo,
                   channel_id, fetched, errors, absent, at_start>>
\* data_processor.remove_channels(list(channels_to_remove))
Remove ==
    /\ pc = "remove"
    /\ \E ids \in {ListOf(channels_to_remove(new_channels, current_channels))} :
          CallRemoveChannels(ids)
    /\ at_removal' =
         [c \in KnownIds |->
            IF /\ c \in channels_to_remove(new_channels, current_channels)
               /\ SnapshotsOf(channel_stats, c) # {}
               /\ \E m \in MetadataOf(channel_metadata, c) : IsCurated(m)
            THEN Curated(CHOOSE m \in MetadataOf(channel_metadata, c) : TRUE)
            ELSE at_removal[c]]
    /\ pc' = "add"
    /\ UNCHANGED <<pace, restVars, session, first_run, current_channels, new_channels, todo,
                   channel_id, fetched, errors, absent, at_start>>

\* for channel_id in channels_to_add: get_channel_statistics(channel_id)
AddFetch ==
    /\ pc = "add"
    /\ \E c \in todo :
          /\ channel_id' = c
          /\ todo' = todo \ {c}
          /\ \E r \in ProviderResponses(c) :
                /\ fetched' = r
                /\ absent' = IF r = None THEN absent \cup {c} ELSE absent
    /\ pace' = "called"
    /\ pc' = "add_store"
    /\ UNCHANGED <<storeVars, call, ghostVars, session, first_run,
                   current_channels, new_channels, errors, at_start, at_removal>>

AddStoreStats == pc = "add_store" /\ StoreStatsOrReport("add_meta", "add")
AddStoreMetadata == pc = "add_meta" /\ StoreStub("add")

\* st.session_state.current_channels = new_channels
FinishUpdate ==
    /\ pc = "add" /\ todo = {}
    /\ current_channels' = new_channels
    /\ pc' = "display"
    /\ at_start' = NoUpdate
    /\ UNCHANGED <<pace, storeVars, call, ghostVars, session, first_run, new_channels,
                   todo, channel_id, fetched, errors, absent, at_removal>>

\* channel_stats_df = get_channel_comparison(list(current_channels)); the run
\* ends and the page stays as drawn until the next one
Display ==
    /\ pc = "display"
    /\ \E ids \in {ListOf(current_channels)} : CallGetChannelComparison(ids)
    /\ pace' = "slept"
    /\ pc' = "idle"
    /\ errors' = NoErrors
    /\ absent' = {}
    /\ channel_id' = NULL
    /\ at_removal' = [c \in KnownIds |->
                        IF SnapshotsOf(channel_stats, c) # {} THEN NoCall
                        ELSE at_removal[c]]
    /\ UNCHANGED <<restVars, session, first_run, current_channels, new_channels, todo,
                   fetched, at_start>>

\* the database file does not exist yet and no browser is connected
Init ==
    /\ PageIdle
    /\ csv = SeedBad /\ history = {} /\ video_stats = {}
    /\ channel_stats = {} /\ channel_metadata = {} /\ clock = 0
    /\ call = [name |-> "none", raised |-> FALSE]
    /\ last_call = [c \in KnownIds |-> NoCall]
    /\ last_stored = [c \in KnownIds |-> NoCall]

Next ==
    \/ RunStart \/ NewSession
    \/ LoopCheck \/ LoopFetch \/ LoopStoreStats \/ LoopStoreMetadata \/ LoopSleep
    \/ BeginUpdate \/ Remove
    \/ AddFetch \/ AddStoreStats \/ AddStoreMetadata \/ FinishUpdate
    \/ Display

Spec == Init /\ [][Next]_vars

\* a run, once started, goes on to its end
ScriptStep ==
    \/ LoopCheck \/ LoopFetch \/ LoopStoreStats \/ LoopStoreMetadata \/ LoopSleep
    \/ BeginUpdate \/ Remove
    \/ AddFetch \/ AddStoreStats \/ AddStoreMetadata \/ FinishUpdate
    \/ Display

\* the retry loop asks the provider for channel c and gets its item
RetryFinds(c) == LoopFetch /\ channel_id = c /\ fetched' # None

\* page runs keep happening, each run ends, and a channel that is asked for
\* again and again is found in the end
Fairness ==
    /\ WF_vars(RunStart)
    /\ WF_vars(ScriptStep)
    /\ \A c \in Channels : SF_vars(RetryFinds(c))
SpecLive == Init /\ [][Next]_vars /\ Fairness

\* ================================================================= properties
\* the set-update has run its last iteration and is about to assign the
\* tracked set
UpdateDone == pc = "add" /\ todo = {}
\* the store held snapshots for exactly the tracked channels when the
\* set-update began, and no fetch of this run failed
CleanUpdate ==
    /\ UpdateDone
    /\ ChannelsOf(at_start.stats) = current_channels
    /\ absent = {}

\* C1: after a set-update that began with snapshots for exactly the tracked
\* channels and in which every fetch succeeded, the channels with a snapshot
\* are exactly the desired ones: a channel of current \ desired has none left,
\* a channel of current /\ desired has exactly the snapshots it had, and a
\* channel of desired \ current has a snapshot newer than all it began with.
C1_SetUpdate ==
    CleanUpdate =>
        /\ ChannelsOf(channel_stats) = new_channels
        /\ \A c \in current_channels \ new_channels :
              SnapshotsOf(channel_stats, c) = {}
        /\ \A c \in current_channels \cap new_channels :
              SnapshotsOf(channel_stats, c) = SnapshotsOf(at_start.stats, c)
        /\ \A c \in new_channels \ current_channels :
              \E r \in SnapshotsOf(channel_stats, c) :
                 /\ r \notin at_start.stats
                 /\ \A old \in at_start.stats : old.fetched_at < r.fetched_at

C1_Witness ==
    /\ CleanUpdate
    /\ current_channels \ new_channels # {}
    /\ current_channels \cap new_channels # {}
    /\ new_channels \ current_channels # {}

\* C8: at the end of a set-update, every channel of to_add the provider
\* answered has a new snapshot and its metadata stub and no report, and every
\* channel of to_add it returned None for has exactly one report and neither
\* a snapshot nor a metadata row written.
C8_PartialFailure ==
    UpdateDone =>
        \A c \in channels_to_add(new_channels, current_channels) :
           IF c \in absent
           THEN /\ errors[c] = 1
                /\ SnapshotsOf(channel_stats, c) = SnapshotsOf(at_start.stats, c)
                /\ MetadataOf(channel_metadata, c) = MetadataOf(at_start.meta, c)
           ELSE /\ errors[c] = 0
                /\ \E r \in SnapshotsOf(channel_stats, c) : r \notin at_start.stats
                /\ \E m \in MetadataOf(channel_metadata, c) :
                      /\ m.title = "Title"
                      /\ Curated(m) = [firm_type |-> NULL, target_audience |-> <<>>,
                                       content_type |-> NULL,
                                       has_legacy_media |-> "false"]

C8_Witness ==
    /\ UpdateDone
    /\ \E c, d \in channels_to_add(new_channels, current_channels) :
          /\ c \in absent /\ errors[c] = 1
          /\ d \notin absent /\ SnapshotsOf(channel_stats, d) # {}

\* C2: a channel whose curated metadata was recorded when remove_channels
\* deleted its snapshots, and which has a snapshot again, still holds those
\* curated values (firm_type, target_audience, content_type, has_legacy_media).
C2_MetadataSurvivesReAdd ==
    \A c \in Channels :
       (at_removal[c] # NoCall /\ SnapshotsOf(channel_stats, c) # {}) =>
          \E m \in MetadataOf(channel_metadata, c) : Curated(m) = at_removal[c]

\* the rows a load of the seed file leaves in an empty table
SeedTable == load_metadata_from_csv({}, csv).table

\* C5: once the store is initialised, every channel the seed file gave a row
\* holds the seed's firm_type, target_audience, content_type and
\* has_legacy_media, whatever fetches have recorded a stub since.
C5_SeedValuesWin ==
    call.name # "none" =>
        \A seeded \in SeedTable :
           \E m \in MetadataOf(channel_metadata, seeded.channel_id) :
              Curated(m) = Curated(seeded)

\* the rows of a result that belong to channel c
ResultRowsOf(result, c) == {r \in result : r.cs.channel_id = c}

\* C6: a result of get_channel_comparison holds one row per channel, and it
\* is the channel's snapshot with the greatest fetched_at.
C6_LatestSnapshotOnly ==
    call.name = "get_channel_comparison" =>
        \A c \in ChannelsOf(channel_stats) :
           \A r \in ResultRowsOf(call.result, c) :
              /\ Cardinality(ResultRowsOf(call.result, c)) = 1
              /\ \A other \in SnapshotsOf(channel_stats, c) :
                    other.fetched_at <= r.cs.fetched_at

\* C7: the channels of a result of get_channel_comparison are exactly the
\* requested channels that have a snapshot, for the empty list too.
C7_ExactlyRequestedWithSnapshot ==
    call.name = "get_channel_comparison" =>
        {r.cs.channel_id : r \in call.result}
            = Range(call.channel_ids) \cap ChannelsOf(channel_stats)

\* C3: a call of remove_channels deletes the snapshots of the channels in its
\* list and nothing else: channel_metadata keeps every row, a snapshot stays
\* exactly when its channel is not in the list, and an empty list changes
\* neither table.
C3_RemoveOnlySnapshots ==
    [][call'.name = "remove_channels" =>
          /\ channel_metadata' = channel_metadata
          /\ channel_stats' =
                {r \in channel_stats : r.channel_id \notin Range(call'.channel_ids)}
          /\ call'.channel_ids = <<>> => channel_stats' = channel_stats]_vars

\* the row a dict leaves behind: each column the dict's value, NULL if omitted
RowOf(c, metadata) ==
    [channel_id |-> c,
     title |-> IF "title" \in DOMAIN metadata THEN metadata.title ELSE NULL,
     description |-> IF "description" \in DOMAIN metadata
                     THEN metadata.description ELSE NULL,
     firm_type |-> IF "firm_type" \in DOMAIN metadata THEN metadata.firm_type ELSE NULL,
     target_audience |-> IF "target_audience" \in DOMAIN metadata
                         THEN metadata.target_audience ELSE NullList,
     content_type |-> IF "content_type" \in DOMAIN metadata
                      THEN metadata.content_type ELSE NULL,
     has_legacy_media |-> IF "has_legacy_media" \in DOMAIN metadata
                          THEN metadata.has_legacy_media ELSE NULL]

\* C4 as stated: a channel has at most one metadata row, and the row holds
\* the fields of the latest store_channel_metadata call for the channel.
C4_LatestCallWins ==
    \A c \in KnownIds :
       /\ Cardinality(MetadataOf(channel_metadata, c)) <= 1
       /\ \A m \in MetadataOf(channel_metadata, c) :
             last_call[c] # NoCall /\ m = RowOf(c, last_call[c])

\* C4 as amended: a channel has at most one metadata row, and the row holds
\* the fields of the latest call for the channel that was not rejected (an
\* omitted field NULL); a channel with no such call has no row.
C4_LatestStoredWins ==
    \A c \in KnownIds :
       /\ Cardinality(MetadataOf(channel_metadata, c)) <= 1
       /\ IF last_stored[c] = NoCall
          THEN MetadataOf(channel_metadata, c) = {}
          ELSE MetadataOf(channel_metadata, c) = {RowOf(c, last_stored[c])}

\* a second call for a channel has replaced a row that had a title by a dict
\* that omits it
C4_Witness ==
    /\ csv = SeedGood
    /\ call.name = "store_channel_metadata" /\ call.channel_id = "UC1"
    /\ ~call.raised
    /\ "title" \notin DOMAIN call.metadata
    /\ \E m \in MetadataOf(channel_metadata, "UC1") :
          m.title = NULL /\ m.firm_type = "etf management"

OutOfDomain(metadata) ==
    \/ /\ "firm_type" \in DOMAIN metadata
       /\ metadata.firm_type \notin FirmTypes \cup {NULL}
    \/ /\ "content_type" \in DOMAIN metadata
       /\ metadata.content_type \notin ContentTypes \cup {NULL}

\* C9: a store_channel_metadata call whose firm_type or content_type is set
\* and outside its domain raises and leaves channel_metadata as it was.
C9_InvalidEnumRejected ==
    [][(call'.name = "store_channel_metadata" /\ OutOfDomain(call'.metadata)) =>
          /\ call'.raised
          /\ channel_metadata' = channel_metadata]_vars

\* a dict with a content_type outside the domain was rejected and the row
\* the channel already had is still there
C9_Witness ==
    /\ call.name = "store_channel_metadata"
    /\ call.raised
    /\ call.metadata.content_type = "medium"
    /\ last_stored[call.channel_id] # NoCall
    /\ MetadataOf(channel_metadata, call.channel_id)
          = {RowOf(call.channel_id, last_stored[call.channel_id])}

\* C10: in every recorded snapshot avg_views_per_video is
\* view_count/video_count, or 0 when video_count is 0, and
\* subscriber_view_ratio is subscriber_count/view_count, or 0 when view_count
\* is 0; and every call of store_channel_stats with an item records its row
\* without raising.
C10_DerivedMetrics ==
    /\ \A r \in channel_stats :
          /\ r.avg_views_per_video[2] > 0 /\ r.subscriber_view_ratio[2] > 0
          /\ IF r.video_count > 0
             THEN r.avg_views_per_video[1] * r.video_count
                     = r.view_count * r.avg_views_per_video[2]
             ELSE r.avg_views_per_video[1] = 0
          /\ IF r.view_count > 0
             THEN r.subscriber_view_ratio[1] * r.view_count
                     = r.subscriber_count * r.subscriber_view_ratio[2]
             ELSE r.subscriber_view_ratio[1] = 0
    /\ (call.name = "store_channel_stats" /\ call.channel_data # None) =>
          /\ ~call.raised
          /\ \E r \in channel_stats :
                /\ r.fetched_at = clock
                /\ r.channel_id = call.channel_data.id

C10_Witness ==
    /\ \E r \in channel_stats :
          r.video_count = 0 /\ r.view_count > 0 /\ r.subscriber_count > 0
    /\ \E r \in channel_stats :
          r.view_count = 0 /\ r.video_count > 0 /\ r.subscriber_count > 0

\* the rows of a pivot that hold nothing but NULL
NullRows(pivot) ==
    {x \in pivot.index : \A y \in pivot.columns : pivot.cell[<<x, y>>] = NULL}

\* C11: whatever subset of the (symbol, window) pairs has data,
\* get_market_performance returns one record per pair with data and none for
\* the others, and get_market_summary returns both pivots without raising,
\* neither with a row of nothing but NULL.
C11_AnySubsetOfPairs ==
    /\ call.name = "get_market_performance" =>
          /\ {<<r.symbol, r.period>> : r \in call.result.rows} = history
          /\ Cardinality(call.result.rows) = Cardinality(history)
    /\ call.name = "get_market_summary" =>
          /\ ~call.raised
          /\ NullRows(call.result.indices) = {}
          /\ NullRows(call.result.vix) = {}

\* C12: in a set-update the snapshots of channels_to_remove are deleted before
\* anything is fetched or inserted for channels_to_add: until the deletion no
\* channel of channels_to_add has been visited and channel_stats is as the
\* update found it, and from the first fetch on no channel that is being
\* removed has a snapshot.
C12_RemoveBeforeAdd ==
    /\ pc = "remove" =>
          /\ todo = channels_to_add(new_channels, current_channels)
          /\ fetched = None
          /\ channel_stats = at_start.stats
    /\ pc \in {"add", "add_store", "add_meta"} =>
          \A c \in channels_to_remove(new_channels, current_channels) :
             SnapshotsOf(channel_stats, c) = {}

\* a channel was added while another, which had a snapshot, was being removed
C12_Witness ==
    /\ pc = "add_meta"
    /\ \E r \in channel_stats \ at_start.stats : r.channel_id = channel_id
    /\ \E c \in channels_to_remove(new_channels, current_channels) :
          SnapshotsOf(at_start.stats, c) # {}

\* a step that calls get_channel_statistics, in either loop
CallsProvider == pc \in {"loop_fetch", "add"} /\ pc' \in {"loop_store", "add_store"}

\* C13: within a run, every call of get_channel_statistics that follows
\* another one comes after a pause: no call is made while the run has not
\* slept since its previous call.
C13_PauseBetweenFetches == [][CallsProvider => pace = "slept"]_vars

\* the rows of the seed file that reach the loop
SeedRows == DropNa(csv.rows)

\* C14: after the seed file is loaded, every row of it whose firm_type and
\* content_type are in their domains is in channel_metadata with the values
\* of the file, whether it stands before or after a row that was rejected,
\* and a rejected row left nothing.
C14_SeedErrorsPerItem ==
    call.name = "__init__" =>
       \A i \in DOMAIN SeedRows :
          IF OutOfDomain(SeedMetadata(SeedRows[i]))
          THEN RowOf(SeedRows[i].channel_id, SeedMetadata(SeedRows[i]))
                  \notin channel_metadata
          ELSE RowOf(SeedRows[i].channel_id, SeedMetadata(SeedRows[i]))
                  \in channel_metadata

DerivedFields ==
    {"like_ratio", "comment_ratio", "engagement_score", "video_age_days",
     "views_per_day"}

\* C15: store_video_stats with a video appends its row, with the derived
\* fields not computed; and once calculate_derived_metrics has run, every row
\* of video_stats has its derived fields, engagement_score being
\* (like_count + comment_count) / view_count when view_count > 0.
C15_TwoPhaseDerivedFields ==
    /\ (call.name = "store_video_stats" /\ call.video_data # None) =>
          /\ ~call.raised
          /\ \E r \in video_stats :
                /\ r.video_id = call.video_data.id
                /\ \A f \in DerivedFields : r[f] = NULL
    /\ call.name = "calculate_derived_metrics" =>
          \A r \in video_stats :
             r.view_count > 0 =>
                /\ r.engagement_score = Div(r.like_count + r.comment_count, r.view_count)
                /\ r.like_ratio = Div(r.like_count, r.view_count)
                /\ r.comment_ratio = Div(r.comment_count, r.view_count)

====
